---- MODULE Spec2Model ----
(***************************************************************************)
(* ARM64 stage-1 page-table walk tools of scripts/03_walk_pagetable.py     *)
(* (walk_va: single-target walk) and scripts/gdb_pagetable_walk.py         *)
(* (arm64_walk_pagetable: targeted walk and bounded dump).                 *)
(*                                                                         *)
(* A Python int that holds a 64-bit quantity is a triple of limbs          *)
(* <<hi, mid, lo>> = bits [63:48], [47:24], [23:0]; the bit operators of   *)
(* the source (&, |, >>, <<, +, -, >=) are computed limb by limb.          *)
(***************************************************************************)
EXTENDS Integers, Sequences, FiniteSets, TLC

\* Python's None (a failed read, an absent argument)
None == <<>>

W(hi, mid, lo) == <<hi, mid, lo>>

\* a small non-negative Python int (below 2^24) as a 64-bit value
FromInt(n) == <<0, 0, n>>

\* the numeric value of a 64-bit value known to be below 2^24
ToInt(a) == a[3]

\* x & y and x | y of two limbs of w bits, by halves of the width
RECURSIVE BitAnd(_, _, _)
BitAnd(x, y, w) ==
    IF x = 0 \/ y = 0 THEN 0
    ELSE IF w = 1 THEN 1
    ELSE LET h == w \div 2
             p == 2 ^ h
         IN  BitAnd(x % p, y % p, h) + p * BitAnd(x \div p, y \div p, w - h)

RECURSIVE BitOr(_, _, _)
BitOr(x, y, w) ==
    IF x = 0 THEN y
    ELSE IF y = 0 THEN x
    ELSE IF w = 1 THEN 1
    ELSE LET h == w \div 2
             p == 2 ^ h
         IN  BitOr(x % p, y % p, h) + p * BitOr(x \div p, y \div p, w - h)

\* a & b
And(a, b) == <<BitAnd(a[1], b[1], 16), BitAnd(a[2], b[2], 24), BitAnd(a[3], b[3], 24)>>

\* a | b
Or(a, b) == <<BitOr(a[1], b[1], 16), BitOr(a[2], b[2], 24), BitOr(a[3], b[3], 24)>>

\* a >> n
RECURSIVE Shr(_, _)
Shr(a, n) ==
    IF n = 0 THEN a
    ELSE IF n >= 24 THEN Shr(<<0, a[1], a[2]>>, n - 24)
    ELSE LET p == 2 ^ n
             q == 2 ^ (24 - n)
         IN  <<a[1] \div p,
               (a[2] \div p) + (a[1] % p) * q,
               (a[3] \div p) + (a[2] % p) * q>>

\* a << n; every shift of the source keeps its result below 2^64
RECURSIVE Shl(_, _)
Shl(a, n) ==
    IF n = 0 THEN a
    ELSE IF n >= 24 THEN Shl(<<a[2] % 65536, a[3], 0>>, n - 24)
    ELSE LET p == 2 ^ n
             q == 2 ^ (24 - n)
             top == IF n >= 16 THEN 0 ELSE (a[1] % (2 ^ (16 - n))) * p
         IN  <<(top + (a[2] \div q)) % 65536,
               (a[2] % q) * p + (a[3] \div q),
               (a[3] % q) * p>>

\* a + b; every sum of the source stays below 2^64
Add(a, b) ==
    LET lo == a[3] + b[3]
        mid == a[2] + b[2] + (lo \div 16777216)
        hi == a[1] + b[1] + (mid \div 16777216)
    IN  <<hi % 65536, mid % 16777216, lo % 16777216>>

\* a - b for a >= b
Sub(a, b) ==
    LET bl == IF a[3] < b[3] THEN 1 ELSE 0
        lo == a[3] + bl * 16777216 - b[3]
        bm == IF a[2] < b[2] + bl THEN 1 ELSE 0
        mid == a[2] + bm * 16777216 - b[2] - bl
    IN  <<a[1] - b[1] - bm, mid, lo>>

\* a >= b
Ge(a, b) ==
    \/ a[1] > b[1]
    \/ a[1] = b[1] /\ a[2] > b[2]
    \/ a[1] = b[1] /\ a[2] = b[2] /\ a[3] >= b[3]

\* bit n of a: (a >> n) & 1
Bit(a, n) == ToInt(And(Shr(a, n), FromInt(1)))

(***************************************************************************)
(* The inspected machine: physical memory and the two table base           *)
(* registers.  Memory is a total function given by finitely many special   *)
(* cells and one default content; a cell holding None cannot be read.      *)
(***************************************************************************)
VARIABLES
    mem,      \* [special : address -> descriptor or None, dflt : descriptor or None]
    ttbr0,    \* value of $TTBR0_EL1, or None when gdb cannot evaluate it
    ttbr1,    \* value of $TTBR1_EL1, or None when gdb cannot evaluate it
    walk,     \* what the last walk_va command did
    enum      \* what the last arm64_walk_pagetable command did

vars == <<mem, ttbr0, ttbr1, walk, enum>>

ReadMem(m, pa) == IF pa \in DOMAIN m.special THEN m.special[pa] ELSE m.dflt

\* a read_phys_u64 that hands back 0 where the monitor gave no value
read_phys_u64_zero(m, pa) ==
    IF ReadMem(m, pa) = None THEN W(0, 0, 0) ELSE ReadMem(m, pa)

\* monitor xp/1gx 0x<pa>, parsed: the 64-bit value, or None
read_phys_u64(m, pa) == ReadMem(m, pa)

\* int(gdb.parse_and_eval("$name")) & 0xFFFFFFFFFFFFFFFF, or None
read_reg(value) ==
    IF value = None THEN None ELSE And(value, W(\hFFFF, \hFFFFFF, \hFFFFFF))

\* 0x0000FFFFFFFFF000: bits [47:12]
ADDR_MASK == W(0, \hFFFFFF, \hFFF000)

\* is_kernel = (va >> 55) & 1
is_kernel(va) == Bit(va, 55) = 1

\* the register do_walk reads for va
walk_reg(va) == IF is_kernel(va) THEN "TTBR1_EL1" ELSE "TTBR0_EL1"

\* table_pa = ttbr & 0x0000FFFFFFFFF000
table_pa(ttbr) == And(ttbr, ADDR_MASK)

\* a va_index that keeps only eight bits of the index
va_index_8bit(va, shift) == ToInt(And(Shr(va, shift), FromInt(\hFF)))

\* the index of va at a level shift: (va >> shift) & 0x1FF
va_index(va, shift) == ToInt(And(Shr(va, shift), FromInt(\h1FF)))

\* offset = va & 0xFFF
va_offset(va) == And(va, FromInt(\hFFF))

\* levels = [(name, idx, shift, block_mask), ...]
levels(va) ==
    << [name |-> "L0 (PGD)", idx |-> va_index(va, 39), shift |-> 39,
        block_mask |-> None],
       [name |-> "L1 (PUD)", idx |-> va_index(va, 30), shift |-> 30,
        block_mask |-> W(0, \hFFFFC0, 0)],
       [name |-> "L2 (PMD)", idx |-> va_index(va, 21), shift |-> 21,
        block_mask |-> W(0, \hFFFFFF, \hE00000)],
       [name |-> "L3 (PTE)", idx |-> va_index(va, 12), shift |-> 12,
        block_mask |-> W(0, \hFFFFFF, \hFFF000)] >>

\* a page_final that leaves the page offset out
page_final_no_offset(entry, va) == And(entry, ADDR_MASK)

\* page_pa = entry & 0x0000FFFFFFFFF000 ; final_pa = page_pa | offset
page_final(entry, va) == Or(And(entry, ADDR_MASK), va_offset(va))

\* a block_base that masks with the 4 KiB page mask at every level
block_base_page_mask(entry, lv) == And(entry, ADDR_MASK)

\* block_pa_base = entry & block_mask
block_base(entry, lv) == And(entry, lv.block_mask)

\* final_pa = block_pa_base | (va & ((1 << shift) - 1))
block_final(entry, va, lv) ==
    Or(block_base(entry, lv), And(va, Sub(Shl(FromInt(1), lv.shift), FromInt(1))))

\* next_table = entry & 0x0000FFFFFFFFF000
next_table(entry) == And(entry, ADDR_MASK)

\* an entry_valid that tests bit 1 instead of bit 0
entry_valid_bit1(entry) == Bit(entry, 1) # 0

\* valid = entry & 1
entry_valid(entry) == ToInt(And(entry, FromInt(1))) # 0

\* which branch the loop body takes for a valid entry
walk_branch(entry, level) ==
    IF level = 3 THEN "PAGE"
    ELSE IF Bit(entry, 1) = 0 /\ level > 0 THEN "BLOCK"
    ELSE "TABLE"

\* the for loop of do_walk from `level` on; steps holds one record per
\* iteration entered so far, frame_pa the "Physical frame" or "Block base PA"
\* it prints
RECURSIVE walk_loop(_, _, _, _, _)
walk_loop(m, va, level, current_table, steps) ==
    LET lv == levels(va)[level + 1]
        entry_pa == Add(current_table, FromInt(lv.idx * 8))
        entry == read_phys_u64(m, entry_pa)
        steps1 == Append(steps, [level |-> level, table |-> current_table,
                                 entry_pa |-> entry_pa, entry |-> entry])
    IN  IF entry = None
        THEN [outcome |-> "ERROR", steps |-> steps1, frame_pa |-> None,
              final_pa |-> None]
        ELSE IF ~entry_valid(entry)
        THEN [outcome |-> "FAULT", steps |-> steps1, frame_pa |-> None,
              final_pa |-> None]
        ELSE IF walk_branch(entry, level) = "PAGE"
        THEN [outcome |-> "PAGE", steps |-> steps1,
              frame_pa |-> And(entry, ADDR_MASK),
              final_pa |-> page_final(entry, va)]
        ELSE IF walk_branch(entry, level) = "BLOCK"
        THEN [outcome |-> "BLOCK", steps |-> steps1,
              frame_pa |-> block_base(entry, lv),
              final_pa |-> block_final(entry, va, lv)]
        ELSE walk_loop(m, va, level + 1, next_table(entry), steps1)

\* do_walk(va).  Formatting a None ttbr with 0x{ttbr:016x} raises TypeError,
\* which ends the command before the indices are extracted; indices and
\* offset are the l0_idx..l3_idx and offset it prints.  verify is the address of the closing
\* monitor xp/1xw, issued only when final_pa is not None.
do_walk(m, t0, t1, va) ==
    LET reg == walk_reg(va)
        ttbr == read_reg(IF reg = "TTBR1_EL1" THEN t1 ELSE t0)
    IN  IF ttbr = None
        THEN [va |-> va, reg |-> reg, ttbr |-> None, table_pa |-> None,
              indices |-> None, offset |-> None,
              outcome |-> "TypeError", steps |-> <<>>, frame_pa |-> None,
              final_pa |-> None, verify |-> None]
        ELSE LET r == walk_loop(m, va, 0, table_pa(ttbr), <<>>)
             IN  [va |-> va, reg |-> reg, ttbr |-> ttbr,
                  table_pa |-> table_pa(ttbr),
                  indices |-> [l \in 1..4 |-> levels(va)[l].idx],
                  offset |-> va_offset(va), outcome |-> r.outcome,
                  steps |-> r.steps, frame_pa |-> r.frame_pa,
                  final_pa |-> r.final_pa, verify |-> r.final_pa]

(***************************************************************************)
(* gdb_pagetable_walk.py: arm64_walk_pagetable [virtual_address]           *)
(***************************************************************************)

\* struct.unpack('<Q', inferior.read_memory(addr, 8)), or None on MemoryError
read_u64(m, addr) == ReadMem(m, addr)

\* int(gdb.parse_and_eval("$name")), or None
read_sysreg(value) == value

\* decode_pte(entry, level): the text it returns, as its kind, the address
\* and the size label it prints
decode_pte(entry, level) ==
    IF entry = None THEN [kind |-> "UNREADABLE"]
    ELSE IF ToInt(And(entry, FromInt(1))) = 0 THEN [kind |-> "INVALID"]
    ELSE LET is_table == Bit(entry, 1)
             next_addr == And(entry, W(0, \hFFFFFF, \hFFF000))
         IN  IF level < 3 /\ is_table = 1
             THEN [kind |-> "TABLE", addr |-> next_addr]
             ELSE [kind |-> IF level < 3 THEN "BLOCK" ELSE "PAGE",
                   addr |-> next_addr,
                   block_size |-> <<"512GB", "1GB", "2MB", "4KB">>[level + 1]]

bits_per_level == <<39, 30, 21, 12>>

\* whether walk_table skips the entry it has just read
skip_entry(entry) == entry = None \/ ToInt(And(entry, FromInt(1))) = 0

\* a recurse_entry that descends into every printed entry above level 3
recurse_entry_any_kind(entry, level) == level < 3

\* whether walk_table recurses into an entry it has printed
recurse_entry(entry, level) == level < 3 /\ Bit(entry, 1) = 1

\* the va printed for index i: va_start | (i << shift), sign-extended
\* when bit 47 is set
entry_va(va_start, i, shift) ==
    LET va == Or(va_start, Shl(FromInt(i), shift))
    IN  IF And(va, Shl(FromInt(1), 47)) # W(0, 0, 0)
        THEN Or(va, W(\hFFFF, 0, 0))
        ELSE va

\* a child_va_start that hands the sign-extended address to the child
child_va_start_extended(va_start, i, shift) == entry_va(va_start, i, shift)

\* the va_start handed to the walk_table call on the entry's table:
\* va_start | (i << shift)
child_va_start(va_start, i, shift) == Or(va_start, Shl(FromInt(i), shift))

\* whether the target filter drops index i
filtered_out(target_va, i, shift) ==
    target_va # None /\ i # va_index(target_va, shift)

\* a truncate_now that lets one entry too many through
truncate_now_off_by_one(entries_shown, max_entries, target_va) ==
    entries_shown > max_entries /\ target_va = None

\* the test that ends the loop after an entry has been printed
truncate_now(entries_shown, max_entries, target_va) ==
    entries_shown >= max_entries /\ target_va = None

\* walk_table(table_addr, va_start, level, target_va, max_entries): the
\* events it appends to log, in order.  c is the call's arguments, st the
\* loop state [log, entries_shown, brk]; for_range is "for i in range(lo, hi)"
\* and loop_body one iteration.  for_range cuts the range in eight runs and
\* takes them in order, each from the state the one before it left (the
\* tuple has every run computed before the next is entered); a run that
\* starts after a break hands its state on unchanged.
RECURSIVE walk_table(_, _, _, _, _, _, _)
RECURSIVE for_range(_, _, _, _)
RECURSIVE loop_body(_, _, _)

loop_body(c, i, st) ==
    LET entry_addr == Add(c.table_addr, FromInt(i * 8))
        entry == read_u64(c.m, entry_addr)
        log1 == Append(st.log, [ev |-> "read", level |-> c.level, i |-> i,
                                addr |-> entry_addr, val |-> entry])
        shift == bits_per_level[c.level + 1]
    IN  IF skip_entry(entry) \/ filtered_out(c.target_va, i, shift)
        THEN [log |-> log1, entries_shown |-> st.entries_shown, brk |-> FALSE]
        ELSE LET log2 == Append(log1,
                     [ev |-> "entry", level |-> c.level, i |-> i,
                      va |-> entry_va(c.va_start, i, shift),
                      decoded |-> decode_pte(entry, c.level), raw |-> entry])
                 shown == st.entries_shown + 1
                 log3 == IF recurse_entry(entry, c.level)
                         THEN walk_table(c.m, And(entry, W(0, \hFFFFFF, \hFFF000)),
                                         child_va_start(c.va_start, i, shift),
                                         c.level + 1, c.target_va, c.max_entries,
                                         log2)
                         ELSE log2
             IN  IF truncate_now(shown, c.max_entries, c.target_va)
                 THEN [log |-> Append(log3, [ev |-> "truncated", level |-> c.level,
                                             entries_shown |-> shown]),
                       entries_shown |-> shown, brk |-> TRUE]
                 ELSE [log |-> log3, entries_shown |-> shown, brk |-> FALSE]

\* a for_range that takes the indices from the highest down
RECURSIVE for_range_descending(_, _, _, _)
for_range_descending(c, lo, hi, st) ==
    CASE st.brk \/ lo >= hi -> st
      [] ~st.brk /\ hi = lo + 1 -> loop_body(c, lo, st)
      [] OTHER ->
           LET q == (hi - lo + 7) \div 8
               cut(k) == IF lo + k * q < hi THEN lo + k * q ELSE hi
               s1 == for_range_descending(c, cut(7), hi, st)
               s2 == for_range_descending(c, cut(6), cut(7), s1)
               s3 == for_range_descending(c, cut(5), cut(6), s2)
               s4 == for_range_descending(c, cut(4), cut(5), s3)
               s5 == for_range_descending(c, cut(3), cut(4), s4)
               s6 == for_range_descending(c, cut(2), cut(3), s5)
               s7 == for_range_descending(c, cut(1), cut(2), s6)
               s8 == for_range_descending(c, lo, cut(1), s7)
           IN  <<s1, s2, s3, s4, s5, s6, s7, s8>>[8]

for_range(c, lo, hi, st) ==
    CASE st.brk \/ lo >= hi -> st
      [] ~st.brk /\ hi = lo + 1 -> loop_body(c, lo, st)
      [] OTHER ->
           LET q == (hi - lo + 7) \div 8
               cut(k) == IF lo + k * q < hi THEN lo + k * q ELSE hi
               s1 == for_range(c, lo, cut(1), st)
               s2 == for_range(c, cut(1), cut(2), s1)
               s3 == for_range(c, cut(2), cut(3), s2)
               s4 == for_range(c, cut(3), cut(4), s3)
               s5 == for_range(c, cut(4), cut(5), s4)
               s6 == for_range(c, cut(5), cut(6), s5)
               s7 == for_range(c, cut(6), cut(7), s6)
               s8 == for_range(c, cut(7), hi, s7)
           IN  <<s1, s2, s3, s4, s5, s6, s7, s8>>[8]

walk_table(m, table_addr, va_start, level, target_va, max_entries, log) ==
    IF level > 3 THEN log
    ELSE for_range([m |-> m, table_addr |-> table_addr, va_start |-> va_start,
                    level |-> level, target_va |-> target_va,
                    max_entries |-> max_entries],
                   0, 512,
                   [log |-> Append(log, [ev |-> "table", level |-> level,
                                         table_addr |-> table_addr,
                                         va_start |-> va_start]),
                    entries_shown |-> 0, brk |-> FALSE]).log

\* target_va >= 0xFFFF000000000000
target_is_kernel(target_va) == Ge(target_va, W(\hFFFF, 0, 0))

\* base = ttbr & 0x0000FFFFFFFFFFFF
ttbr_base(ttbr) == And(ttbr, W(0, \hFFFFFF, \hFFFFFF))

\* the part of invoke that runs with a target address
invoke_target(m, t0, t1, target_va) ==
    IF target_is_kernel(target_va)
    THEN IF t1 = None
         THEN [target_va |-> target_va, reg |-> "TTBR1_EL1",
               outcome |-> "Cannot read TTBR1_EL1", log |-> <<>>]
         ELSE [target_va |-> target_va, reg |-> "TTBR1_EL1", outcome |-> "done",
               log |-> walk_table(m, ttbr_base(t1), W(\hFFFF, 0, 0), 0,
                                  target_va, 512,
                                  <<[ev |-> "root", reg |-> "TTBR1_EL1",
                                     base |-> ttbr_base(t1)]>>)]
    ELSE IF t0 = None
         THEN [target_va |-> target_va, reg |-> "TTBR0_EL1",
               outcome |-> "Cannot read TTBR0_EL1", log |-> <<>>]
         ELSE [target_va |-> target_va, reg |-> "TTBR0_EL1", outcome |-> "done",
               log |-> walk_table(m, ttbr_base(t0), W(0, 0, 0), 0,
                                  target_va, 512,
                                  <<[ev |-> "root", reg |-> "TTBR0_EL1",
                                     base |-> ttbr_base(t0)]>>)]

\* the part of invoke that runs without an argument: dump both
invoke_dump(m, t0, t1) ==
    LET log0 == IF t0 # None
                THEN walk_table(m, ttbr_base(t0), W(0, 0, 0), 0, None, 10,
                                <<[ev |-> "root", reg |-> "TTBR0_EL1",
                                   base |-> ttbr_base(t0)]>>)
                ELSE <<>>
        log1 == IF t1 # None
                THEN walk_table(m, ttbr_base(t1), W(\hFFFF, 0, 0), 0, None, 10,
                                Append(log0, [ev |-> "root", reg |-> "TTBR1_EL1",
                                              base |-> ttbr_base(t1)]))
                ELSE log0
    IN  [target_va |-> None, reg |-> None, outcome |-> "done", log |-> log1]

\* Arm64PageTableWalk.invoke with target_va parsed from the argument
arm64_invoke(m, t0, t1, target_va) ==
    LET r0 == read_sysreg(t0)
        r1 == read_sysreg(t1)
    IN  IF target_va # None THEN invoke_target(m, r0, r1, target_va)
        ELSE invoke_dump(m, r0, r1)

(***************************************************************************)
(* The machines and the addresses the commands are tried on.               *)
(***************************************************************************)

\* physical addresses of the tables: two roots and one table per deeper level
U0 == W(0, \h40, \h100000)
K0 == W(0, \h41, \h200000)
LevelTable(root, l) ==
    IF l = 0 THEN root ELSE W(0, \h40, \h100000 + l * \h1000)

\* descriptors
ZERO == W(0, 0, 0)
TableDesc(t) == Or(t, W(\h8000, 0, 3))        \* valid, bit 1 set, NSTable set
Level0Bit1Clear(t) == Or(t, W(\h8000, 0, 1))  \* valid, bit 1 clear
INVALID == W(0, \h40, \h101002)               \* bit 0 clear, other bits set
LEAF0 == W(\h0060, \h47, \hFED601)            \* valid, bit 1 clear
LEAF1 == W(\h0060, \h47, \hFED603)            \* valid, bit 1 set
SCEN_A == W(\h0040, \h41, \h000703)           \* page at 0x41000000
SCEN_B == W(0, \h40, \h000601)                \* 0x0000000040000601

\* virtual addresses
VA_K == W(\hFFFF, \h800008, \hCC895C)   \* 0xffff800008cc895c
VA_U == W(0, \h000123, \h456789)   \* 0x0000000123456789
VA_X == W(\h0080, \h000123, \h456789)   \* 0x0080000123456789: bit 55 set, not canonical
VA_Y == W(\hFF00, \h000123, \h456789)   \* 0xff00000123456789: bit 55 clear, not canonical
VAs == {VA_K, VA_U, VA_X, VA_Y}

\* the (root, va) pairs whose walk the special cells lie on
Paths == {<<K0, VA_K>>, <<U0, VA_U>>, <<K0, VA_U>>}

PathAddr(root, va, l) ==
    Add(LevelTable(root, l), FromInt(va_index(va, bits_per_level[l + 1]) * 8))

\* memory whose paths hold table descriptors above level L and term at
\* level L; l0 is the descriptor kind used at level 0
Image(L, term, l0bit1, dflt) ==
    [special |->
        [a \in {PathAddr(p[1], p[2], l) : p \in Paths, l \in 0..L} |->
            LET l == CHOOSE k \in 0..L : \E p \in Paths : a = PathAddr(p[1], p[2], k)
            IN  IF l = L THEN term
                ELSE IF l = 0 /\ ~l0bit1 THEN Level0Bit1Clear(LevelTable(U0, 1))
                ELSE TableDesc(LevelTable(U0, l + 1))],
     dflt |-> dflt]

Uniform(dflt) == [special |-> [a \in {} |-> ZERO], dflt |-> dflt]

\* memory whose table descriptors point back: the user root to itself at
\* indices 0 and 256; the kernel root to itself at index 0 and, at index
\* 256, to a table whose entry 0 points back to the kernel root
SelfRef ==
    [special |->
        [a \in {U0, Add(U0, FromInt(256 * 8)), K0, Add(K0, FromInt(256 * 8)),
                LevelTable(K0, 1)} |->
            IF a \in {U0, Add(U0, FromInt(256 * 8))} THEN TableDesc(U0)
            ELSE IF a = Add(K0, FromInt(256 * 8)) THEN TableDesc(LevelTable(K0, 1))
            ELSE TableDesc(K0)],
     dflt |-> ZERO]

MemImages ==
    {Image(L, term, TRUE, ZERO) : L \in 0..3, term \in {None, INVALID, LEAF0, LEAF1}}
    \cup {Image(3, SCEN_A, FALSE, None), Image(1, SCEN_B, TRUE, LEAF0),
          Image(2, LEAF0, FALSE, LEAF0), Image(3, LEAF0, TRUE, INVALID),
          Uniform(LEAF0), Uniform(None), SelfRef}

\* register contents: plain, with an ASID in bits [63:48], with CnP (bit 0)
Registers ==
    { [ttbr0 |-> U0, ttbr1 |-> Or(K0, W(\h0001, 0, 0))],
      [ttbr0 |-> None, ttbr1 |-> K0],
      [ttbr0 |-> Or(U0, W(\h0002, 0, 1)), ttbr1 |-> None] }

NotRun == [outcome |-> "NotRun"]

Init ==
    /\ mem \in MemImages
    /\ \E r \in Registers : ttbr0 = r.ttbr0 /\ ttbr1 = r.ttbr1
    /\ walk = NotRun
    /\ enum = NotRun

\* (gdb) walk_va <va>: va = int(args[0], 0) & 0xFFFFFFFFFFFFFFFF; do_walk(va)
WalkVa ==
    /\ walk = NotRun
    /\ \E va \in VAs :
         walk' = do_walk(mem, ttbr0, ttbr1, And(va, W(\hFFFF, \hFFFFFF, \hFFFFFF)))
    /\ UNCHANGED <<mem, ttbr0, ttbr1, enum>>

\* (gdb) arm64_walk_pagetable [va]
Arm64WalkPagetable ==
    /\ enum = NotRun
    /\ walk = NotRun
    /\ \E target_va \in VAs \cup {None} :
         enum' = arm64_invoke(mem, ttbr0, ttbr1, target_va)
    /\ UNCHANGED <<mem, ttbr0, ttbr1, walk>>

Next == WalkVa \/ Arm64WalkPagetable

Spec == Init /\ [][Next]_vars

\* walk_va over a wide set of addresses: every pattern of the three limbs
HiLimbs == {0, \hFFFF, \h0080, \hFF00}
MidLimbs == {0, \hFFFFFF, \hAAAAAA, \h555555, \h800008, \h000123, \h7FFFC0, \h008007}
LoLimbs == {0, \hFFFFFF, \hAAAAAA, \h555555, \hCC895C, \h456789, \hE00FFF, \h1FF000}
WideVAs == {W(h, m, l) : h \in HiLimbs, m \in MidLimbs, l \in LoLimbs}

\* (gdb) walk_va <va> for va in WideVAs
WalkVaWide ==
    /\ walk = NotRun
    /\ \E va \in WideVAs :
         walk' = do_walk(mem, ttbr0, ttbr1, And(va, W(\hFFFF, \hFFFFFF, \hFFFFFF)))
    /\ UNCHANGED <<mem, ttbr0, ttbr1, enum>>

SpecDecompose == Init /\ [][WalkVaWide]_vars

(***************************************************************************)
(* Single-target walk (walk_va): properties of the recorded walk.          *)
(***************************************************************************)

WalkRan == walk.outcome \notin {"NotRun", "TypeError"}

\* the content of the cell the k-th iteration of the walk loop addressed
CellAt(k) == ReadMem(mem, walk.steps[k].entry_pa)

\* bit n of a descriptor, read off its limbs without the walk's operators
LowBit(d, n) == (d[3] \div (2 ^ n)) % 2

\* the iterations of the walk are those of levels 0, 1, 2, ... in order
LevelsInOrder == \A j \in 1..Len(walk.steps) : walk.steps[j].level = j - 1

\* C1: when the descriptor read at level L has bit 0 clear, the walk stops
\* at level L with a translation fault: exactly L+1 descriptors were read,
\* one per level 0..L, none deeper, and no final physical address (and no
\* closing read of it) is produced.
C1_InvalidEntryStopsWalk ==
    WalkRan =>
        \A k \in 1..Len(walk.steps) :
            (CellAt(k) # None /\ LowBit(CellAt(k), 0) = 0) =>
                /\ k = Len(walk.steps)
                /\ LevelsInOrder
                /\ Len(walk.steps) = walk.steps[k].level + 1
                /\ walk.outcome = "FAULT"
                /\ walk.final_pa = None
                /\ walk.verify = None

\* a translation fault at level 2, after two table descriptors
C1_Witness ==
    /\ walk.outcome = "FAULT"
    /\ Len(walk.steps) = 3
    /\ CellAt(3) # None /\ LowBit(CellAt(3), 0) = 0

\* C2: when the read of the descriptor at level L fails, the walk ends at
\* level L as an unreadable-memory error: the cell is addressed once, the
\* descriptors of levels 0..L-1 were read and decoded, nothing is read for a
\* deeper level and no final physical address is produced.
C2_ReadFailureStopsWalk ==
    WalkRan =>
        \A k \in 1..Len(walk.steps) :
            CellAt(k) = None =>
                /\ k = Len(walk.steps)
                /\ LevelsInOrder
                /\ \A j \in 1..(k - 1) :
                       /\ walk.steps[j].entry = CellAt(j)
                       /\ CellAt(j) # None
                       /\ LowBit(CellAt(j), 0) = 1
                /\ walk.steps[k].entry = None
                /\ walk.outcome = "ERROR"
                /\ walk.final_pa = None
                /\ walk.verify = None

\* the read fails at level 2, after levels 0 and 1 were decoded
C2_Witness ==
    /\ walk.outcome = "ERROR"
    /\ Len(walk.steps) = 3
    /\ CellAt(3) = None
    /\ CellAt(1) # None /\ CellAt(2) # None

\* C3: when the walk reaches level 3 and the level-3 descriptor is valid,
\* it ends as a page mapping with final PA =
\* (raw3 & 0x0000FFFFFFFFF000) | (va & 0xFFF), whatever bit 1 of raw3 is;
\* output address 0x41000000 with offset 0x95c gives 0x4100095c.
C3_Level3IsPage ==
    (WalkRan /\ Len(walk.steps) = 4 /\ CellAt(4) # None /\ LowBit(CellAt(4), 0) = 1) =>
        LET raw3 == CellAt(4)
            frame == <<0, raw3[2], raw3[3] - (raw3[3] % 4096)>>
            off == walk.va[3] % 4096
        IN  /\ walk.outcome = "PAGE"
            /\ walk.final_pa = <<0, frame[2], frame[3] + off>>
            /\ (frame = W(0, \h41, 0) /\ off = \h95C) =>
                   walk.final_pa = W(0, \h41, \h00095C)

\* a valid level-3 descriptor with bit 1 clear ends the walk as a page
C3_Witness ==
    /\ walk.outcome = "PAGE"
    /\ Len(walk.steps) = 4
    /\ LowBit(CellAt(4), 1) = 0
    /\ walk.va[3] % 4096 # 0

\* C4: a valid descriptor with bit 1 = 0 reached at level 1 or 2 ends the
\* walk there with final PA = (raw & blockMask) | (va & ((1 << shift) - 1)),
\* shift/blockMask = 30 / bits[47:30] at level 1 and 21 / bits[47:21] at
\* level 2; raw 0x0000000040000601 at level 1 with va 0x0000000123456789
\* gives block base 0x40000000 and final PA 0x40000000 | (va & 0x3FFFFFFF).
C4_BlockEndsWalk ==
    WalkRan =>
        \A k \in {2, 3} \cap (1..Len(walk.steps)) :
            (CellAt(k) # None /\ LowBit(CellAt(k), 0) = 1 /\ LowBit(CellAt(k), 1) = 0) =>
                LET raw == CellAt(k)
                    va == walk.va
                    expected ==
                        IF k = 2
                        THEN <<0, (raw[2] - (raw[2] % 64)) + (va[2] % 64), va[3]>>
                        ELSE <<0, raw[2],
                               (raw[3] - (raw[3] % 2097152)) + (va[3] % 2097152)>>
                IN  /\ k = Len(walk.steps)
                    /\ walk.steps[k].level = k - 1
                    /\ walk.outcome = "BLOCK"
                    /\ walk.final_pa = expected
                    /\ (k = 2 /\ raw = W(0, \h40, \h000601)
                            /\ va = W(0, \h000123, \h456789)) =>
                           walk.final_pa = W(0, \h63, \h456789)

\* a 2 MiB block at level 2 whose descriptor has bits set below bit 21
C4_Witness ==
    /\ walk.outcome = "BLOCK"
    /\ Len(walk.steps) = 3
    /\ CellAt(3)[3] % 2097152 >= 4096
    /\ walk.va[3] % 2097152 # 0

(***************************************************************************)
(* Both tools: descriptor classification, root selection, registers.       *)
(***************************************************************************)

EnumRan == enum.outcome = "done"

\* raw & 0x0000FFFFFFFFF000, off the limbs
PageMasked(raw) == <<0, raw[2], raw[3] - (raw[3] % 4096)>>

\* raw masked to bits[47:30] at level 1 and to bits[47:21] at level 2
BlockMasked(raw, level) ==
    IF level = 1 THEN <<0, raw[2] - (raw[2] % 64), 0>>
    ELSE <<0, raw[2], raw[3] - (raw[3] % 2097152)>>

\* bit 55 of a virtual address
Bit55(va) == (va[1] \div 128) % 2

\* C5: at level 0 every valid descriptor is a Table whatever its bit 1, in
\* both modes: the walk descends to level 1 with raw & 0x0000FFFFFFFFF000 as
\* table base, and the enumeration prints the entry as TABLE and recurses into
\* that table at level 1.
C5_Level0AlwaysTable ==
    /\ (WalkRan /\ CellAt(1) # None /\ LowBit(CellAt(1), 0) = 1) =>
           /\ Len(walk.steps) >= 2
           /\ walk.steps[2].level = 1
           /\ walk.steps[2].table = PageMasked(CellAt(1))
    /\ EnumRan =>
           \A j \in 1..Len(enum.log) :
               (enum.log[j].ev = "entry" /\ enum.log[j].level = 0) =>
                   /\ enum.log[j].decoded.kind = "TABLE"
                   /\ j < Len(enum.log)
                   /\ enum.log[j + 1].ev = "table"
                   /\ enum.log[j + 1].level = 1
                   /\ enum.log[j + 1].table_addr = PageMasked(enum.log[j].raw)

\* C6: a valid descriptor at level 1 or 2 with bit 1 = 0 is a Block whose
\* reported output address is raw masked with the level's mask (bits[47:30]
\* at level 1, bits[47:21] at level 2), never with the 4 KiB page mask, in
\* the walk's block decoding and in the enumeration's decode_pte.
C6_BlockUsesLevelMask ==
    /\ WalkRan =>
           \A k \in {2, 3} \cap (1..Len(walk.steps)) :
               (CellAt(k) # None /\ LowBit(CellAt(k), 0) = 1
                    /\ LowBit(CellAt(k), 1) = 0) =>
                   /\ walk.outcome = "BLOCK"
                   /\ walk.frame_pa = BlockMasked(CellAt(k), k - 1)
    /\ EnumRan =>
           \A j \in 1..Len(enum.log) :
               (enum.log[j].ev = "entry" /\ enum.log[j].level \in {1, 2}
                    /\ LowBit(enum.log[j].raw, 1) = 0) =>
                   /\ enum.log[j].decoded.kind = "BLOCK"
                   /\ enum.log[j].decoded.addr =
                          BlockMasked(enum.log[j].raw, enum.log[j].level)

\* C7: the root register depends only on bit 55 of the virtual address:
\* TTBR1_EL1 when it is set and TTBR0_EL1 otherwise, whatever bits[63:48]
\* are, for walk_va and for arm64_walk_pagetable with a target address.
C7_RootByBit55 ==
    /\ walk.outcome # "NotRun" =>
           walk.reg = IF Bit55(walk.va) = 1 THEN "TTBR1_EL1" ELSE "TTBR0_EL1"
    /\ (enum.outcome # "NotRun" /\ enum.target_va # None) =>
           enum.reg = IF Bit55(enum.target_va) = 1 THEN "TTBR1_EL1" ELSE "TTBR0_EL1"

\* the value of a table base register of the machine
RegValue(reg) == IF reg = "TTBR1_EL1" THEN ttbr1 ELSE ttbr0

\* C8: when the table base register needed for root selection cannot be
\* read, the walk is aborted before any physical-memory read and the command
\* reports the register as unavailable (no translation fault), in do_walk and
\* in the targeted arm64_walk_pagetable.
C8_RegisterUnavailable ==
    /\ (walk.outcome # "NotRun" /\ RegValue(walk.reg) = None) =>
           /\ walk.steps = <<>>
           /\ walk.verify = None
           /\ walk.outcome \in {"Cannot read TTBR0_EL1", "Cannot read TTBR1_EL1"}
    /\ (enum.outcome # "NotRun" /\ enum.target_va # None
            /\ RegValue(enum.reg) = None) =>
           /\ enum.log = <<>>
           /\ enum.outcome \in {"Cannot read TTBR0_EL1", "Cannot read TTBR1_EL1"}

\* C10: in the enumeration a failed read of one entry is flagged on that
\* entry in the output and does not abort the table: the next index of the
\* same table is still read, and the unread entry is not dropped from the
\* report.
C10_UnreadableEntryFlagged ==
    EnumRan =>
        \A j \in 1..Len(enum.log) :
            (enum.log[j].ev = "read" /\ ReadMem(mem, enum.log[j].addr) = None) =>
                /\ j < Len(enum.log)
                /\ enum.log[j + 1].ev = "entry"
                /\ enum.log[j + 1].level = enum.log[j].level
                /\ enum.log[j + 1].i = enum.log[j].i
                /\ enum.log[j + 1].decoded.kind = "UNREADABLE"
                /\ enum.log[j].i < 511 =>
                       \E n \in (j + 1)..Len(enum.log) :
                           /\ enum.log[n].ev = "read"
                           /\ enum.log[n].level = enum.log[j].level
                           /\ enum.log[n].i = enum.log[j].i + 1

(***************************************************************************)
(* Enumeration: what one call of walk_table contributes to the output.     *)
(* A call is named by the position k of its "table" header in the log; its *)
(* own events are those of its level up to the next header of the same or  *)
(* a shallower level.                                                      *)
(***************************************************************************)

Headers(log) == {k \in 1..Len(log) : log[k].ev = "table"}

CallEnd(log, k) ==
    LET later == {j \in (k + 1)..Len(log) :
                     \/ log[j].ev = "root"
                     \/ log[j].ev = "table" /\ log[j].level <= log[k].level}
    IN  IF later = {} THEN Len(log) + 1
        ELSE CHOOSE j \in later : \A n \in later : j <= n

OwnEvents(log, k, ev) ==
    {j \in (k + 1)..(CallEnd(log, k) - 1) :
        log[j].ev = ev /\ log[j].level = log[k].level}

\* the indices of a table whose cell is readable and has bit 0 set
ValidIndices(table_addr) ==
    {i \in 0..511 :
        LET cell == ReadMem(mem, Add(table_addr, FromInt(i * 8)))
        IN  cell # None /\ LowBit(cell, 0) = 1}

\* the call printed exactly the `cap` lowest valid indices, or all of them
\* when there are fewer, each once and in ascending order, and the truncation
\* line, "entries_shown" = cap, closes the call exactly when cap was reached
CappedCall(log, k, cap) ==
    LET shown == OwnEvents(log, k, "entry")
        marks == OwnEvents(log, k, "truncated")
        valid == ValidIndices(log[k].table_addr)
        idx == {log[j].i : j \in shown}
    IN  /\ Cardinality(shown) <= cap
        /\ Cardinality(idx) = Cardinality(shown)
        /\ idx \subseteq valid
        /\ \A i \in idx : \A v \in valid : v < i => v \in idx
        /\ \A a, b \in shown : a < b => log[a].i < log[b].i
        /\ Cardinality(valid) >= cap =>
               /\ Cardinality(shown) = cap
               /\ Cardinality(marks) = 1
               /\ \A n \in marks :
                      /\ log[n].entries_shown = cap
                      /\ \A j \in shown : j < n
                      /\ \A j \in OwnEvents(log, k, "read") : j < n
        /\ Cardinality(valid) < cap =>
               /\ Cardinality(shown) = Cardinality(valid)
               /\ marks = {}
        /\ Cardinality(valid) = 512 /\ cap = 10 => idx = 0..9

\* bits [47:39], [38:30], [29:21], [20:12] of va for level 0, 1, 2, 3
IndexAt(va, level) ==
    IF level = 0 THEN va[2] \div 32768
    ELSE IF level = 1 THEN (va[2] \div 64) % 512
    ELSE IF level = 2 THEN (va[2] % 64) * 8 + (va[3] \div 2097152)
    ELSE (va[3] \div 4096) % 512

\* with a target the call printed at most one entry, the target's, and
\* exactly one when the target's cell is readable and valid; no truncation
TargetedCall(log, k, target_va) ==
    LET shown == OwnEvents(log, k, "entry")
        valid == ValidIndices(log[k].table_addr)
        want == IndexAt(target_va, log[k].level)
    IN  /\ Cardinality(shown) <= 1
        /\ \A j \in shown : log[j].i = want
        /\ want \in valid => Cardinality(shown) = 1
        /\ OwnEvents(log, k, "truncated") = {}

\* walk_table on a root of this machine without a target, under another cap
DumpWithCap(ttbr, cap) ==
    walk_table(mem, ttbr_base(ttbr), ZERO, 0, None, cap, <<>>)

\* the largest of the other caps tried
MaxOtherCap == 3

OtherCaps == 1..MaxOtherCap

\* C9: without a target one table's enumeration stops after max_entries
\* entries and says so: with cap 10 a table of 512 valid readable entries
\* yields its 10 lowest indices and then the truncation line, and for every
\* cap >= 1 no table yields more entries than the cap; with a target every
\* table yields at most one entry, exactly one when the target's entry at
\* that level is valid, whatever the cap.
C9_TruncationAtCap ==
    EnumRan =>
        /\ (enum.target_va = None) =>
               \A k \in Headers(enum.log) : CappedCall(enum.log, k, 10)
        /\ (enum.target_va = None /\ walk = NotRun) =>
               \A cap \in OtherCaps : \A t \in {ttbr0, ttbr1} \ {None} :
                   LET log == DumpWithCap(t, cap)
                   IN  \A k \in Headers(log) : CappedCall(log, k, cap)
        /\ (enum.target_va # None) =>
               \A k \in Headers(enum.log) :
                   TargetedCall(enum.log, k, enum.target_va)

\* a dump that met a table of 512 valid entries and cut it after index 9,
\* below a parent table that was itself enumerated
C9_Witness ==
    /\ EnumRan
    /\ enum.target_va = None
    /\ \E k \in Headers(enum.log) :
           /\ enum.log[k].level > 0
           /\ Cardinality(ValidIndices(enum.log[k].table_addr)) = 512
           /\ {enum.log[j].i : j \in OwnEvents(enum.log, k, "entry")} = 0..9
           /\ OwnEvents(enum.log, k, "truncated") # {}

(***************************************************************************)
(* Index extraction of walk_va.                                            *)
(***************************************************************************)

\* C11: the four indices and the offset that do_walk extracts from va
\* reconstruct its low 48 bits exactly,
\* (l0<<39)|(l1<<30)|(l2<<21)|(l3<<12)|offset = va & 0xFFFFFFFFFFFF,
\* with every index in 0..511 and the offset in 0..4095.  The fields do not
\* overlap, so the OR is the sum; bits [47:24] and [23:0] are compared limb
\* by limb (l2 straddles the two: its high six bits lie in [47:24]).
C11_IndicesReconstructVa ==
    WalkRan =>
        LET l0 == walk.indices[1]
            l1 == walk.indices[2]
            l2 == walk.indices[3]
            l3 == walk.indices[4]
        IN  /\ \A l \in 1..4 : walk.indices[l] \in 0..511
            /\ walk.offset[1] = 0 /\ walk.offset[2] = 0
            /\ walk.offset[3] \in 0..4095
            /\ l0 * 32768 + l1 * 64 + l2 \div 8 = walk.va[2]
            /\ (l2 % 8) * 2097152 + l3 * 4096 + walk.offset[3] = walk.va[3]

\* a walk of 0xffffaaaaaa555555 extracted l0 = 341, l1 = 170, l2 = 338,
\* l3 = 341 and offset 0x555
C11_Witness ==
    /\ WalkRan
    /\ walk.va = <<\hFFFF, \hAAAAAA, \h555555>>
    /\ walk.indices = <<341, 170, 338, 341>>
    /\ walk.offset = <<0, 0, \h555>>

(***************************************************************************)
(* Table roots.                                                            *)
(***************************************************************************)

\* C12: every table root handed to the walk or to the enumeration is the
\* register value masked to bits [47:12]: the root has its low 12 bits zero
\* and every bit above bit 47 zero, and every level-0 entry address is
\* 8-byte aligned, in do_walk and in every walk_table call that
\* arm64_walk_pagetable makes on a register value.
C12_RootMaskedTo47_12 ==
    /\ WalkRan =>
           /\ walk.table_pa = PageMasked(RegValue(walk.reg))
           /\ walk.steps[1].entry_pa[3] % 8 = 0
    /\ EnumRan =>
           \A j \in 1..Len(enum.log) :
               /\ enum.log[j].ev = "root" =>
                      /\ enum.log[j].base = PageMasked(RegValue(enum.log[j].reg))
                      /\ enum.log[j + 1].ev = "table"
                      /\ enum.log[j + 1].table_addr = enum.log[j].base
               /\ (enum.log[j].ev = "read" /\ enum.log[j].level = 0) =>
                      enum.log[j].addr[3] % 8 = 0

(***************************************************************************)
(* Targeted enumeration: the memory reads it issues.                       *)
(***************************************************************************)

\* the positions of the memory reads in a log
Reads(log) == {j \in 1..Len(log) : log[j].ev = "read"}

\* C13: when arm64_walk_pagetable is given a target address, the only index
\* of a visited table for which a memory read is issued is the target's
\* index at that level, (target_va >> shift) & 0x1FF; no other index is
\* read, so the whole command issues at most 4 descriptor reads.
C13_TargetReadsOnlyItsIndex ==
    (EnumRan /\ enum.target_va # None) =>
        /\ \A j \in Reads(enum.log) :
               enum.log[j].i = IndexAt(enum.target_va, enum.log[j].level)
        /\ Cardinality(Reads(enum.log)) <= 4

(***************************************************************************)
(* Enumeration: recursion.                                                 *)
(***************************************************************************)

\* C14: the enumeration terminates with recursion depth at most 4 whatever
\* memory holds, table descriptors that point back to their own or to an
\* ancestor table included: every walk_table call is at a level in 0..3; a
\* call at level 0 is the one made on a root; a call at level L+1 is made
\* only for an entry printed at level L < 3 whose descriptor is valid with
\* bit 1 set, on the table that descriptor addresses; and a valid level-3
\* entry or a block entry (bit 1 clear) is a leaf, never descended into.
C14_RecursionBounded ==
    EnumRan =>
        /\ \A k \in Headers(enum.log) :
               LET h == enum.log[k]
                   e == enum.log[k - 1]
               IN  /\ h.level \in 0..3
                   /\ h.level = 0 => e.ev = "root"
                   /\ h.level > 0 =>
                          /\ e.ev = "entry"
                          /\ e.level = h.level - 1
                          /\ ReadMem(mem, enum.log[k - 2].addr) = e.raw
                          /\ LowBit(e.raw, 0) = 1
                          /\ LowBit(e.raw, 1) = 1
                          /\ h.table_addr = PageMasked(e.raw)
        /\ \A j \in 1..Len(enum.log) :
               (/\ enum.log[j].ev = "entry"
                /\ (enum.log[j].level = 3 \/ LowBit(enum.log[j].raw, 1) = 0)) =>
                   (j = Len(enum.log) \/ enum.log[j + 1].ev # "table")

\* a dump finished on memory whose kernel root points to itself: the root
\* table was visited again at level 3, where its self-pointing entry was
\* printed as a leaf
C14_Witness ==
    /\ EnumRan
    /\ enum.target_va = None
    /\ \E k \in Headers(enum.log) :
           /\ enum.log[k].level = 3
           /\ enum.log[k].table_addr = K0
           /\ ttbr1 # None /\ PageMasked(ttbr1) = K0
           /\ \E j \in (k + 1)..Len(enum.log) :
                  /\ enum.log[j].ev = "entry"
                  /\ enum.log[j].level = 3
                  /\ LowBit(enum.log[j].raw, 1) = 1
                  /\ PageMasked(enum.log[j].raw) = K0

(***************************************************************************)
(* Order of the output.                                                    *)
(***************************************************************************)

\* the position of the first event after j that is not below level L: the
\* end of what an entry printed at position j, level L, has under it
NextAtOrAbove(log, j, L) ==
    LET later == {n \in (j + 1)..Len(log) :
                     log[n].ev = "root" \/ log[n].level <= L}
    IN  IF later = {} THEN Len(log) + 1
        ELSE CHOOSE n \in later : \A x \in later : n <= x

\* the events under the entry at position j are those of one walk_table
\* call on the table its descriptor addresses, begun right after the entry
SubtreeFollowsEntry(log, j) ==
    LET L == log[j].level
        end == NextAtOrAbove(log, j, L)
        child == PageMasked(log[j].raw)
    IN  /\ end > j + 1 =>
               /\ log[j + 1].ev = "table"
               /\ log[j + 1].level = L + 1
               /\ log[j + 1].table_addr = child
        /\ \A n \in (j + 2)..(end - 1) :
               /\ ~(log[n].ev = "table" /\ log[n].level = L + 1)
               /\ (log[n].ev = "read" /\ log[n].level = L + 1) =>
                      log[n].addr = Add(child, FromInt(8 * log[n].i))
        /\ (end <= Len(log) /\ log[end].ev # "root" /\ log[end].level = L) =>
               /\ log[end].ev \in {"read", "truncated"}
               /\ log[end].ev = "read" => log[end].i = log[j].i + 1

\* the read at position j is that of the index after the one before it:
\* index 0 right after the table's header, index i + 1 right after the read
\* or the entry of index i (what follows an entry that has a table under it
\* is settled by SubtreeFollowsEntry)
ReadInTurn(log, j) ==
    LET p == log[j - 1]
    IN  /\ p.ev # "root"
        /\ p.ev = "table" => (p.level = log[j].level /\ log[j].i = 0)
        /\ (p.ev \in {"read", "entry"} /\ p.level = log[j].level) =>
               log[j].i = p.i + 1
        /\ p.level >= log[j].level

\* C15: walk_va reports the levels it visits in the order 0, 1, 2, 3, each
\* at most once.  arm64_walk_pagetable reads the indices of one table in
\* ascending order and prints each entry once, right after the read of its
\* own cell, so in strictly ascending index order; everything under the
\* entry at index i (the walk_table call on its table) comes after that
\* entry and before the table's next index is read, hence before any entry
\* of a greater index.
C15_ReportingOrder ==
    /\ walk.outcome # "NotRun" =>
           /\ LevelsInOrder
           /\ Len(walk.steps) <= 4
    /\ EnumRan =>
           /\ \A k \in Headers(enum.log) :
                  \A a, b \in OwnEvents(enum.log, k, "entry") :
                      a < b => enum.log[a].i < enum.log[b].i
           /\ \A j \in 1..Len(enum.log) :
                  /\ enum.log[j].ev = "read" => ReadInTurn(enum.log, j)
                  /\ enum.log[j].ev = "entry" =>
                         /\ enum.log[j - 1].ev = "read"
                         /\ enum.log[j - 1].level = enum.log[j].level
                         /\ enum.log[j - 1].i = enum.log[j].i
                         /\ SubtreeFollowsEntry(enum.log, j)
                  /\ (enum.log[j].ev = "table" /\ enum.log[j].level > 0) =>
                         /\ enum.log[j - 1].ev = "entry"
                         /\ enum.log[j - 1].level = enum.log[j].level - 1

\* a walk that went through all four levels, on a machine whose dump
\* printed, in one table, an entry with a table under it and then an
\* entry of a greater index
C15_Witness ==
    /\ walk.outcome = "PAGE"
    /\ Len(walk.steps) = 4
    /\ EnumRan
    /\ enum.target_va = None
    /\ \E k \in Headers(enum.log) :
           \E a, b \in OwnEvents(enum.log, k, "entry") :
               /\ a < b
               /\ enum.log[a + 1].ev = "table"
               /\ b > a + 512
               /\ enum.log[a].i < enum.log[b].i

(***************************************************************************)
(* Enumeration: the virtual address printed with an entry.                 *)
(***************************************************************************)

\* va_start | (i << shift) for the shift of `level`, limb by limb; the bits
\* of the index are clear in every va_start that walk_table is called with,
\* so the OR is a sum
PrefixWithIndex(va_start, i, level) ==
    IF level = 0 THEN <<va_start[1], va_start[2] + i * 32768, va_start[3]>>
    ELSE IF level = 1 THEN <<va_start[1], va_start[2] + i * 64, va_start[3]>>
    ELSE IF level = 2
    THEN <<va_start[1], va_start[2] + i \div 8, va_start[3] + (i % 8) * 2097152>>
    ELSE <<va_start[1], va_start[2], va_start[3] + i * 4096>>

\* x with 0xFFFF000000000000 OR-ed in exactly when its bit 47 is set
SignExtended(x) == IF x[2] >= 8388608 THEN <<65535, x[2], x[3]>> ELSE x

\* C16: the address printed with the entry at index i of a table is
\* va_start | (i << shift), with 0xFFFF000000000000 OR-ed in exactly when
\* bit 47 of that value is set.  The extension touches the printed address
\* only: the walk_table call on the entry's table gets the un-extended
\* va_start | (i << shift), its table address is the descriptor masked to
\* bits [47:12], and it reads that table's cells, 8 bytes apart.
C16_SignExtensionDisplayOnly ==
    EnumRan =>
        \A k \in Headers(enum.log) :
            /\ (enum.log[k].level = 0 /\ enum.log[k - 1].ev = "root") =>
                   enum.log[k].va_start =
                       IF enum.log[k - 1].reg = "TTBR1_EL1"
                       THEN <<65535, 0, 0>> ELSE <<0, 0, 0>>
            /\ \A r \in OwnEvents(enum.log, k, "read") :
                   enum.log[r].addr =
                       Add(enum.log[k].table_addr, <<0, 0, 8 * enum.log[r].i>>)
            /\ \A j \in OwnEvents(enum.log, k, "entry") :
                   LET x == PrefixWithIndex(enum.log[k].va_start, enum.log[j].i,
                                            enum.log[k].level)
                   IN  /\ enum.log[j].va = SignExtended(x)
                       /\ (j < Len(enum.log) /\ enum.log[j + 1].ev = "table") =>
                              /\ enum.log[j + 1].va_start = x
                              /\ enum.log[j + 1].table_addr =
                                     PageMasked(enum.log[j].raw)

\* a dump of the TTBR0 tree printed index 256 of the root with the address
\* 0xffff800000000000 and handed 0x0000800000000000 to the call on its
\* table, where an entry was again printed sign-extended
C16_Witness ==
    /\ EnumRan
    /\ enum.target_va = None
    /\ \E k \in Headers(enum.log) :
           /\ enum.log[k].level = 0
           /\ enum.log[k].va_start = <<0, 0, 0>>
           /\ \E j \in OwnEvents(enum.log, k, "entry") :
                  /\ enum.log[j].i = 256
                  /\ enum.log[j].va = <<65535, 8388608, 0>>
                  /\ enum.log[j + 1].ev = "table"
                  /\ enum.log[j + 1].va_start = <<0, 8388608, 0>>
                  /\ enum.log[j + 3].ev = "entry"
                  /\ enum.log[j + 3].va[1] = 65535

(***************************************************************************)
(* The two tools on the same address.                                      *)
(***************************************************************************)

\* a read of the cell at the target's index of its level
IsTargetRead(e) ==
    e.ev = "read" /\ e.i = IndexAt(enum.target_va, e.level)

\* the cells arm64_walk_pagetable <va> visited on the way to va, in order,
\* as <<level, entry address, raw descriptor>>
EnumPath ==
    LET reads == SelectSeq(enum.log, IsTargetRead)
    IN  [n \in 1..Len(reads) |-> <<reads[n].level, reads[n].addr, reads[n].val>>]

\* the cells walk_va <va> visited, in order
WalkPath ==
    [n \in 1..Len(walk.steps) |->
        <<walk.steps[n].level, walk.steps[n].entry_pa, walk.steps[n].entry>>]

\* both commands were given the same address
SameAddress ==
    /\ walk.outcome # "NotRun"
    /\ enum.outcome # "NotRun"
    /\ enum.target_va = walk.va

\* C17: arm64_walk_pagetable <va> traces the path of walk_va <va>: the two
\* take the same root register and the same root table address and visit
\* the same sequence of (level, entry address, raw descriptor), so they
\* descend and stop at the same levels, for every va, every register value
\* and every memory.
C17_TargetedEnumerationTracesWalk ==
    SameAddress =>
        /\ enum.reg = walk.reg
        /\ RegValue(walk.reg) = None => (walk.steps = <<>> /\ enum.log = <<>>)
        /\ (RegValue(walk.reg) # None /\ RegValue(enum.reg) # None) =>
               /\ enum.log[1].ev = "root"
               /\ enum.log[1].base = walk.table_pa
               /\ EnumPath = WalkPath

====
